---- MODULE Spec2Model ----
(***************************************************************************)
(* change-monitor: one run of main() in src/main.rs.                       *)
(*                                                                         *)
(* The program is a single sequential procedure.  Its state is the local   *)
(* variables of main(), the position in main() (pc), and what the run has  *)
(* done to the outside world: the file-system calls, the git commands      *)
(* issued, the lines printed on standard output and the exit code.         *)
(*                                                                         *)
(* The outside world (argument vector, file system, dependency file, git)  *)
(* is read at the step that consults it and recorded in a variable, so a   *)
(* property can speak about "the dependency file was unreadable".          *)
(*                                                                         *)
(* Strings that name files are modelled as paths: sequences of components. *)
(* An absolute path starts with the component "/".                         *)
(*                                                                         *)
(* Environment assumptions: the environment is stable during the run       *)
(* (whether `git` can be executed is observed by the first git command and *)
(* is the same for the later ones; a path that canonicalize() resolved     *)
(* still exists for try_exists()), the argument vector holds at least the  *)
(* program name, the target is not reached through a symbolic link, and    *)
(* writes to standard output succeed.  Logging (simple_logger) goes to     *)
(* standard error (comment at main.rs:193) and is not modelled.            *)
(***************************************************************************)
EXTENDS Integers, Sequences, FiniteSets, TLC

\* ------------------------------------------------------------------ bounds
\* Longest argument vector considered, program name included.
MaxArgs == 4
\* Longest dependencies array considered in an entry of .deps.toml.
MaxDeps == 2

\* ------------------------------------------------------- program constants
DEPENDENCIES_PATH == ".deps.toml"

\* " DIRTY", the text push_str appends (main.rs:199).
DirtyMarker == " DIRTY"

\* Exit status of a panic: 101 when the build unwinds (the default),
\* 134 (SIGABRT) when it is built with panic = "abort".
PanicCodes == {101, 134}

\* ------------------------------------------------------------ input domains
ProgName == "change-monitor"
\* words that appear as command-line arguments
ArgWords == {"main.rs", "docs", "--date", "--dat", "-v", "--version"}
\* every argument past the second is this word
ExtraWord == "--dat"

ArgVectors ==
    { <<ProgName>> \o r : r \in UNION { { s \in [1..n -> ArgWords] :
                                            \A i \in 3..n : s[i] = ExtraWord }
                                        : n \in 0..(MaxArgs - 1) } }

\* the directory the target lives in, canonical form
Cwd == <<"/", "repo">>

Some(x) == [some |-> TRUE, val |-> x]
None == [some |-> FALSE, val |-> <<>>]

\* ---- TOML values of the dependency file
TomlString(p) == [type |-> "string", val |-> p]
TomlInteger == [type |-> "integer", val |-> <<>>]

\* paths a dependency may name, relative to the base directory
DepPaths == { <<"main.rs">>, <<"lib.rs">>, <<"docs", "guide.md">> }
DepItems == { TomlString(p) : p \in DepPaths } \cup { TomlInteger }
DepArrays == UNION { [1..n -> DepItems] : n \in 0..MaxDeps }

\* A value stored under a file-name key of the top-level table:
\*   scalar   - not a table                 (main.rs = 3)
\*   nodeps   - a table without dependencies
\*   notarray - dependencies is not an array (dependencies = "lib.rs")
\*   array    - dependencies = [ ... ]
Entries ==
    { [kind |-> k, items |-> <<>>] : k \in {"scalar", "nodeps", "notarray"} }
      \cup { [kind |-> "array", items |-> a] : a \in DepArrays }

TableKeys == {"main.rs", "lib.rs"}
\* entries of the other file are limited to keep the state space small
OtherEntries == { [kind |-> "array", items |-> <<TomlInteger>>],
                  [kind |-> "array", items |-> <<TomlString(<<"main.rs">>)>>] }
Tables ==
    { t \in UNION { [K -> Entries] : K \in SUBSET TableKeys } :
        "lib.rs" \in DOMAIN t => t["lib.rs"] \in OtherEntries }

EmptyTable == [k \in {} |-> [kind |-> "scalar", items |-> <<>>]]

\* what the run finds at <base directory>/.deps.toml
DepsFiles ==
    { [state |-> s, table |-> EmptyTable] : s \in {"absent", "unreadable", "unparseable"} }
      \cup { [state |-> "parsed", table |-> t] : t \in Tables }
NotConsulted == [state |-> "unknown", table |-> EmptyTable]

\* what `git log` answers: exit status and whether stdout holds a commit
LogResults == [success : BOOLEAN, found : BOOLEAN]
\* what `git status` answers: exit status and whether stdout is empty
StatusResults == [success : BOOLEAN, changes : BOOLEAN]

VARIABLES
    pc,              \* position in main(): the step to run next, or "done"
    args,            \* env::args(), program name first
    panicCode,       \* exit status this build gives a panic
    exitCode,        \* exit code of the process, meaningful when pc = "done"
    stdout,          \* lines printed on standard output
    trace,           \* steps executed so far, in order
    fsCalls,         \* file-system calls made so far
    gitCalls,        \* git commands issued so far
    gitExecutable,   \* whether `git` can be spawned
    repo,            \* result of the repository check
    filepath,        \* canonical path of the target
    base_directory,  \* directory used as cwd of git and as fallback
    filename,        \* last component of filepath
    get_date,        \* --date mode
    depsFile,        \* the dependency file as found
    dependencies,    \* Option<Vec<String>> of main.rs:137
    all_files,       \* Vec<String> of main.rs:172
    logResult,       \* answer of git log
    latest_commit,   \* Option<String> of main.rs:191
    statusResult,    \* answer of git status
    commit_hash      \* the line being built (main.rs:194)

vars == <<pc, args, panicCode, exitCode, stdout, trace, fsCalls, gitCalls,
          gitExecutable, repo, filepath, base_directory, filename, get_date,
          depsFile, dependencies, all_files, logResult, latest_commit,
          statusResult, commit_hash>>


\* ------------------------------------------------------- pure operators

\* main.rs:81 with the upper bound dropped
UsageError_NoUpperBound(a) == Len(a) < 2

\* main.rs:81  args.len() < 2 || args.len() > 3
UsageError(a) == Len(a) < 2 \/ Len(a) > 3

\* main.rs:87  &args[1] == "-v" || &args[1] == "--version"   (args is 0-based there)
VersionFlag(a) == a[2] = "-v" \/ a[2] = "--version"

\* main.rs:93-95  PathBuf::from(&args[1]).canonicalize(): an error when the
\* path does not exist, else the absolute path
Canonicalize(arg, kind) ==
    IF kind = "missing" THEN None ELSE Some(Cwd \o <<arg>>)

\* main.rs:104-110  the path itself for a directory, else its parent
BaseDirectoryOf(path, kind) ==
    IF kind = "dir" THEN path ELSE SubSeq(path, 1, Len(path) - 1)

\* main.rs:122-126  filepath.file_name(): the last component
FileNameOf(path) == path[Len(path)]

\* filename.to_string() used as a path argument of git: a one-component
\* relative path
PathOf(name) == <<name>>

\* --date accepted at any position
GetDateOf_AnyPosition(a) == \E i \in 2..Len(a) : a[i] = "--date"

\* main.rs:131  args.get(2).map_or(false, |arg| arg == "--date")
GetDateOf(a) == Len(a) >= 3 /\ a[3] = "--date"

\* main.rs:153  dep.as_str()
AsStr(v) == IF v.type = "string" THEN Some(v.val) ELSE None

\* an unreadable file treated like an absent one
ReadDependencies_UnreadableAsAbsent(file, name) ==
    IF file.state \in {"absent", "unreadable"} THEN [panic |-> FALSE, deps |-> None]
    ELSE IF file.state = "unparseable" THEN [panic |-> TRUE, deps |-> None]
    ELSE IF name \notin DOMAIN file.table THEN [panic |-> FALSE, deps |-> None]
    ELSE IF file.table[name].kind # "array" THEN [panic |-> FALSE, deps |-> None]
    ELSE LET items == file.table[name].items IN
         IF \E i \in 1..Len(items) : ~AsStr(items[i]).some
         THEN [panic |-> TRUE, deps |-> None]
         ELSE [panic |-> FALSE,
               deps |-> Some([i \in 1..Len(items) |-> AsStr(items[i]).val])]

\* main.rs:137-162  the value of `dependencies`, or a panic:
\*   exists() false                       -> None
\*   read_to_string fails  (expect)       -> panic
\*   parse::<toml::Table> fails (expect)  -> panic
\*   .get(filename)            no key     -> None
\*   .get("dependencies")      value not a table, or no such key -> None
\*   .as_array()               not an array -> None
\*   dep.as_str().expect(..)   an item that is not a string -> panic
\*   else Some(the items, in order)
ReadDependencies(file, name) ==
    IF file.state = "absent" THEN [panic |-> FALSE, deps |-> None]
    ELSE IF file.state \in {"unreadable", "unparseable"}
         THEN [panic |-> TRUE, deps |-> None]
    ELSE IF name \notin DOMAIN file.table THEN [panic |-> FALSE, deps |-> None]
    ELSE IF file.table[name].kind # "array" THEN [panic |-> FALSE, deps |-> None]
    ELSE LET items == file.table[name].items IN
         IF \E i \in 1..Len(items) : ~AsStr(items[i]).some
         THEN [panic |-> TRUE, deps |-> None]
         ELSE [panic |-> FALSE,
               deps |-> Some([i \in 1..Len(items) |-> AsStr(items[i]).val])]

\* the file name left out of the set
AllFilesOf_DepsOnly(deps, name, base) ==
    IF deps.some THEN deps.val ELSE <<base>>

\* the fallback watching the file instead of its directory
AllFilesOf_FallbackFile(deps, name, base) ==
    IF deps.some THEN <<PathOf(name)>> \o deps.val ELSE <<PathOf(name)>>

\* main.rs:172-186  the files handed to git
AllFilesOf(deps, name, base) ==
    IF deps.some THEN <<PathOf(name)>> \o deps.val ELSE <<base>>

\* the repository check's result discarded
RepositoryOk_Always(inside) == TRUE

\* main.rs:36-40 and the expect of main.rs:119: Ok iff git rev-parse succeeded
RepositoryOk(inside) == inside

HashFormat == "--pretty=format:%H"
DateFormat == "--pretty=format:%cs"

\* the hash asked for in both modes
LogFormat_AlwaysHash(date) == HashFormat

\* main.rs:45-49
LogFormat(date) == IF date THEN DateFormat ELSE HashFormat

\* what git log -1 <format> prints: nothing when no commit matches, else
\* the committer date or the hash of the latest one, as the format asks
GitLogOutput(format, found) ==
    IF ~found THEN <<>>
    ELSE IF format = DateFormat THEN <<"2024-05-17">> ELSE <<"9fceb02d">>

\* the empty output not mapped to None
LatestCommitOf_KeepEmpty(success, out) ==
    IF success THEN Some(out) ELSE None

\* main.rs:60-66  Some(stdout) when git succeeded and printed something
LatestCommitOf(success, out) ==
    IF success /\ out # <<>> THEN Some(out) ELSE None

\* cleanliness read from the exit status instead of the output
IsWorkingTreeClean_ByExitStatus(status) == status.success

\* main.rs:23  output.stdout.is_empty()
IsWorkingTreeClean(status) == ~status.changes

\* the working tree examined before the commit is matched
ResultStep_DirtyFirst(latest, date) ==
    IF ~date THEN "CheckDirty"
    ELSE IF latest.some THEN "PrintLine" ELSE "done"

\* main.rs:194-205  where main() goes with the result of the log query
ResultStep(latest, date) ==
    IF latest.some
    THEN (IF ~date THEN "CheckDirty" ELSE "PrintLine")
    ELSE "done"

GitCall(cmd, format, files, cwd) ==
    [cmd |-> cmd, format |-> format, files |-> files, cwd |-> cwd]

FsCall(op, path) == [op |-> op, path |-> path]

\* --------------------------------------------------------------- the run

Init ==
    /\ pc = "CheckArgs"
    /\ args \in ArgVectors
    /\ panicCode \in PanicCodes
    /\ gitExecutable \in BOOLEAN
    /\ exitCode = 0
    /\ stdout = <<>>
    /\ trace = <<>>
    /\ fsCalls = <<>>
    /\ gitCalls = <<>>
    /\ repo = "unknown"
    /\ filepath = <<>>
    /\ base_directory = <<>>
    /\ filename = ""
    /\ get_date = FALSE
    /\ depsFile = NotConsulted
    /\ dependencies = None
    /\ all_files = <<>>
    /\ logResult = [success |-> FALSE, found |-> FALSE]
    /\ latest_commit = None
    /\ statusResult = [success |-> FALSE, changes |-> FALSE]
    /\ commit_hash = <<>>

\* main.rs:78-84
CheckArgs ==
    /\ pc = "CheckArgs"
    /\ trace' = Append(trace, "CheckArgs")
    /\ IF UsageError(args)
       THEN pc' = "done" /\ exitCode' = 1
       ELSE pc' = "CheckVersion" /\ exitCode' = exitCode
    /\ UNCHANGED <<args, panicCode, stdout, fsCalls, gitCalls, gitExecutable,
                   repo, filepath, base_directory, filename, get_date, depsFile,
                   dependencies, all_files, logResult, latest_commit,
                   statusResult, commit_hash>>

\* main.rs:86-90  the version goes to standard error
CheckVersion ==
    /\ pc = "CheckVersion"
    /\ trace' = Append(trace, "CheckVersion")
    /\ IF VersionFlag(args)
       THEN pc' = "done" /\ exitCode' = 0
       ELSE pc' = "ResolvePath" /\ exitCode' = exitCode
    /\ UNCHANGED <<args, panicCode, stdout, fsCalls, gitCalls, gitExecutable,
                   repo, filepath, base_directory, filename, get_date, depsFile,
                   dependencies, all_files, logResult, latest_commit,
                   statusResult, commit_hash>>

\* main.rs:92-116  canonicalize, try_exists, base directory and its string.
\* try_exists() of a path canonicalize() just resolved is Ok; its boolean
\* is discarded by the code.
ResolvePath ==
    /\ pc = "ResolvePath"
    /\ trace' = Append(trace, "ResolvePath")
    /\ \E kind \in {"missing", "file", "dir"}, utf8 \in BOOLEAN :
         LET c == Canonicalize(args[2], kind) IN
         IF ~c.some
         THEN /\ fsCalls' = Append(fsCalls, FsCall("canonicalize", PathOf(args[2])))
              /\ pc' = "done" /\ exitCode' = panicCode
              /\ UNCHANGED <<filepath, base_directory>>
         ELSE /\ fsCalls' = fsCalls \o << FsCall("canonicalize", PathOf(args[2])),
                                          FsCall("try_exists", c.val),
                                          FsCall("is_dir", c.val) >>
              /\ filepath' = c.val
              /\ base_directory' = BaseDirectoryOf(c.val, kind)
              /\ IF utf8
                 THEN pc' = "CheckGitRepository" /\ exitCode' = exitCode
                 ELSE pc' = "done" /\ exitCode' = panicCode
    /\ UNCHANGED <<args, panicCode, stdout, gitCalls, gitExecutable, repo,
                   filename, get_date, depsFile, dependencies, all_files,
                   logResult, latest_commit, statusResult, commit_hash>>

\* main.rs:119 and 28-41
CheckGitRepository ==
    /\ pc = "CheckGitRepository"
    /\ trace' = Append(trace, "CheckGitRepository")
    /\ IF ~gitExecutable
       THEN /\ pc' = "done" /\ exitCode' = panicCode
            /\ UNCHANGED <<gitCalls, repo>>
       ELSE \E inside \in BOOLEAN :
              /\ gitCalls' = Append(gitCalls,
                     GitCall("rev-parse", "--is-inside-work-tree", <<>>, base_directory))
              /\ repo' = IF inside THEN "inside" ELSE "outside"
              /\ IF RepositoryOk(inside)
                 THEN pc' = "ExtractFilename" /\ exitCode' = exitCode
                 ELSE pc' = "done" /\ exitCode' = panicCode
    /\ UNCHANGED <<args, panicCode, stdout, fsCalls, gitExecutable, filepath,
                   base_directory, filename, get_date, depsFile, dependencies,
                   all_files, logResult, latest_commit, statusResult, commit_hash>>

\* main.rs:121-131  a canonical path below Cwd has a last component, and it
\* is the argument, which is valid UTF-8: neither expect can fail
ExtractFilename ==
    /\ pc = "ExtractFilename"
    /\ trace' = Append(trace, "ExtractFilename")
    /\ filename' = FileNameOf(filepath)
    /\ get_date' = GetDateOf(args)
    /\ pc' = "LoadDependencies"
    /\ UNCHANGED <<args, panicCode, exitCode, stdout, fsCalls, gitCalls,
                   gitExecutable, repo, filepath, base_directory, depsFile,
                   dependencies, all_files, logResult, latest_commit,
                   statusResult, commit_hash>>

\* main.rs:133-162
LoadDependencies ==
    /\ pc = "LoadDependencies"
    /\ trace' = Append(trace, "LoadDependencies")
    /\ \E f \in DepsFiles :
         LET dependencies_path == base_directory \o <<DEPENDENCIES_PATH>>
             r == ReadDependencies(f, filename)
         IN  /\ depsFile' = f
             /\ fsCalls' = fsCalls \o
                    (IF f.state = "absent"
                     THEN << FsCall("exists", dependencies_path) >>
                     ELSE << FsCall("exists", dependencies_path),
                             FsCall("read_to_string", dependencies_path) >>)
             /\ IF r.panic
                THEN pc' = "done" /\ exitCode' = panicCode
                     /\ UNCHANGED dependencies
                ELSE pc' = "CollectFiles" /\ exitCode' = exitCode
                     /\ dependencies' = r.deps
    /\ UNCHANGED <<args, panicCode, stdout, gitCalls, gitExecutable, repo,
                   filepath, base_directory, filename, get_date, all_files,
                   logResult, latest_commit, statusResult, commit_hash>>

\* main.rs:169-188
CollectFiles ==
    /\ pc = "CollectFiles"
    /\ trace' = Append(trace, "CollectFiles")
    /\ all_files' = AllFilesOf(dependencies, filename, base_directory)
    /\ pc' = "GetLatestCommit"
    /\ UNCHANGED <<args, panicCode, exitCode, stdout, fsCalls, gitCalls,
                   gitExecutable, repo, filepath, base_directory, filename,
                   get_date, depsFile, dependencies, logResult, latest_commit,
                   statusResult, commit_hash>>

\* main.rs:191 and 44-67
GetLatestCommit ==
    /\ pc = "GetLatestCommit"
    /\ trace' = Append(trace, "GetLatestCommit")
    /\ IF ~gitExecutable
       THEN /\ pc' = "done" /\ exitCode' = panicCode
            /\ UNCHANGED <<gitCalls, logResult, latest_commit>>
       ELSE \E r \in LogResults :
              LET format == LogFormat(get_date) IN
              /\ gitCalls' = Append(gitCalls,
                     GitCall("log", format, all_files, base_directory))
              /\ logResult' = r
              /\ latest_commit' =
                     LatestCommitOf(r.success, GitLogOutput(format, r.found))
              /\ pc' = "HandleResult" /\ exitCode' = exitCode
    /\ UNCHANGED <<args, panicCode, stdout, fsCalls, gitExecutable, repo,
                   filepath, base_directory, filename, get_date, depsFile,
                   dependencies, all_files, statusResult, commit_hash>>

\* main.rs:194 and 202-205  if let Some(mut commit_hash) ... else exit(1)
HandleResult ==
    /\ pc = "HandleResult"
    /\ trace' = Append(trace, "HandleResult")
    /\ pc' = ResultStep(latest_commit, get_date)
    /\ exitCode' = IF pc' = "done" THEN 1 ELSE exitCode
    /\ commit_hash' = latest_commit.val
    /\ UNCHANGED <<args, panicCode, stdout, fsCalls, gitCalls, gitExecutable,
                   repo, filepath, base_directory, filename, get_date, depsFile,
                   dependencies, all_files, logResult, latest_commit,
                   statusResult>>

\* main.rs:198-200 and 13-24
CheckDirty ==
    /\ pc = "CheckDirty"
    /\ trace' = Append(trace, "CheckDirty")
    /\ IF ~gitExecutable
       THEN /\ pc' = "done" /\ exitCode' = panicCode
            /\ UNCHANGED <<gitCalls, statusResult, commit_hash>>
       ELSE \E s \in StatusResults :
              /\ gitCalls' = Append(gitCalls,
                     GitCall("status", "--porcelain=v2", all_files, base_directory))
              /\ statusResult' = s
              /\ commit_hash' = IF ~IsWorkingTreeClean(s)
                                THEN commit_hash \o <<DirtyMarker>>
                                ELSE commit_hash
              /\ pc' = "PrintLine" /\ exitCode' = exitCode
    /\ UNCHANGED <<args, panicCode, stdout, fsCalls, gitExecutable, repo,
                   filepath, base_directory, filename, get_date, depsFile,
                   dependencies, all_files, logResult, latest_commit>>

\* main.rs:201 and the return from main()
PrintLine ==
    /\ pc = "PrintLine"
    /\ trace' = Append(trace, "PrintLine")
    /\ stdout' = Append(stdout, commit_hash)
    /\ pc' = "done"
    /\ exitCode' = 0
    /\ UNCHANGED <<args, panicCode, fsCalls, gitCalls, gitExecutable, repo,
                   filepath, base_directory, filename, get_date, depsFile,
                   dependencies, all_files, logResult, latest_commit,
                   statusResult, commit_hash>>

Next ==
    \/ CheckArgs
    \/ CheckVersion
    \/ ResolvePath
    \/ CheckGitRepository
    \/ ExtractFilename
    \/ LoadDependencies
    \/ CollectFiles
    \/ GetLatestCommit
    \/ HandleResult
    \/ CheckDirty
    \/ PrintLine

Spec == Init /\ [][Next]_vars


\* ------------------------------------------------------------ properties

LogCalls == { i \in 1..Len(gitCalls) : gitCalls[i].cmd = "log" }
StatusCalls == { i \in 1..Len(gitCalls) : gitCalls[i].cmd = "status" }
RevParseCalls == { i \in 1..Len(gitCalls) : gitCalls[i].cmd = "rev-parse" }

\* the run ended at the usage message of main.rs:82-83
UsageExit == pc = "done" /\ trace = <<"CheckArgs">>

\* the dependency file was parsed and holds, under the target's file name,
\* a table with a dependencies array
HasEntry ==
    /\ depsFile.state = "parsed"
    /\ filename \in DOMAIN depsFile.table
    /\ depsFile.table[filename].kind = "array"

\* no dependency entry: file absent, no table under the target's name, or a
\* table without a dependencies array
NoEntry ==
    \/ depsFile.state = "absent"
    \/ /\ depsFile.state = "parsed"
       /\ \/ filename \notin DOMAIN depsFile.table
          \/ depsFile.table[filename].kind # "array"

DeclaredItems == depsFile.table[filename].items
Declared == [i \in 1..Len(DeclaredItems) |-> DeclaredItems[i].val]
NonStringDeclared ==
    HasEntry /\ \E i \in 1..Len(DeclaredItems) : DeclaredItems[i].type # "string"

CommitFound == LogCalls # {} /\ logResult.success /\ logResult.found
NoCommit == LogCalls # {} /\ (~logResult.success \/ ~logResult.found)

LastOf(line) == line[Len(line)]

\* C1 as stated: when the dependency file exists but cannot be read, the run
\* ends with exit code 1, no log query is issued and nothing is written to
\* standard output.
C1_UnreadableExitsWithOne ==
    (depsFile.state = "unreadable" /\ pc = "done")
        => (exitCode = 1 /\ LogCalls = {} /\ stdout = <<>>)

\* C1 amended: when the dependency file exists but cannot be read, the run
\* ends at once by a panic, with the panic's exit status (101, or 134 when
\* built to abort) and never with exit code 1 or 0; no log query is issued
\* and nothing is written to standard output.
C1_UnreadablePanics ==
    depsFile.state = "unreadable"
        => /\ pc = "done"
           /\ exitCode = panicCode
           /\ exitCode \in PanicCodes
           /\ exitCode \notin {0, 1}
           /\ LogCalls = {}
           /\ stdout = <<>>

C1_Witness ==
    /\ depsFile.state = "unreadable"
    /\ pc = "done"
    /\ exitCode = 101

\* C2: with no argument after the program name, or more than two, the run
\* exits with code 1 before any file-system call, git command or write to
\* standard output; with one or two arguments it never ends at the usage exit.
C2_UsageExit ==
    /\ ((Len(args) < 2 \/ Len(args) > 3) /\ pc # "CheckArgs")
          => /\ UsageExit
             /\ exitCode = 1
             /\ fsCalls = <<>>
             /\ gitCalls = <<>>
             /\ stdout = <<>>
    /\ (Len(args) - 1 \in {1, 2}) => ~UsageExit

C2_Witness ==
    /\ Len(args) > 3
    /\ UsageExit
    /\ exitCode = 1

\* C3: when the log query fails or prints nothing, the run ends with exit
\* code 1, writes nothing to standard output and never issues the status
\* query; when it succeeds and prints a commit, the run writes exactly one
\* line and ends with exit code 0.
C3_LogOutcome ==
    /\ NoCommit => /\ pc \in {"HandleResult", "done"}
                   /\ (pc = "done" => exitCode = 1)
                   /\ stdout = <<>>
                   /\ StatusCalls = {}
    /\ (CommitFound /\ pc = "done") => (Len(stdout) = 1 /\ exitCode = 0)

C3_Witness ==
    /\ LogCalls # {}
    /\ logResult.success
    /\ ~logResult.found
    /\ pc = "done"
    /\ exitCode = 1

C5_FallbackFileSet ==
    /\ \A i \in LogCalls :
         NoEntry => /\ gitCalls[i].files = <<base_directory>>
                    /\ \A j \in 1..Len(gitCalls[i].files) :
                           gitCalls[i].files[j] # PathOf(filename)
    /\ (NoEntry /\ pc = "done") => LogCalls # {}

C5_Witness ==
    /\ depsFile.state = "parsed"
    /\ filename \in DOMAIN depsFile.table
    /\ depsFile.table[filename].kind = "nodeps"
    /\ LogCalls # {}
    /\ pc = "done"

\* C6: in hash mode with a commit found, the printed line ends with the dirty
\* marker if and only if the status query printed something, and the status
\* query is issued for the same file set as the log query.
C6_DirtyMarker ==
    (CommitFound /\ ~get_date /\ pc = "done")
        => /\ Len(stdout) = 1
           /\ (LastOf(stdout[1]) = DirtyMarker) <=> statusResult.changes
           /\ Cardinality(StatusCalls) = 1
           /\ \A s \in StatusCalls : \A l \in LogCalls :
                  gitCalls[s].files = gitCalls[l].files

C6_Witness ==
    /\ CommitFound
    /\ ~get_date
    /\ pc = "done"
    /\ statusResult.changes
    /\ statusResult.success
    /\ LastOf(stdout[1]) = DirtyMarker

DateMode == Len(args) = 3 /\ args[3] = "--date"

\* C7: in --date mode the log query asks for the commit date instead of the
\* hash, the printed line never carries the dirty marker, and the status
\* query is never issued.
C7_DateMode ==
    DateMode
        => /\ \A i \in LogCalls : gitCalls[i].format = DateFormat
           /\ \A i \in LogCalls : gitCalls[i].format # HashFormat
           /\ StatusCalls = {}
           /\ \A k \in 1..Len(stdout) :
                  /\ stdout[k] = GitLogOutput(DateFormat, TRUE)
                  /\ \A j \in 1..Len(stdout[k]) : stdout[k][j] # DirtyMarker

C7_Witness ==
    /\ DateMode
    /\ pc = "done"
    /\ Len(stdout) = 1

Rank(step) ==
    CASE step = "CheckArgs" -> 1
      [] step = "CheckVersion" -> 2
      [] step = "ResolvePath" -> 3
      [] step = "CheckGitRepository" -> 4
      [] step = "ExtractFilename" -> 5
      [] step = "LoadDependencies" -> 6
      [] step = "CollectFiles" -> 7
      [] step = "GetLatestCommit" -> 8
      [] step = "HandleResult" -> 9
      [] step = "CheckDirty" -> 10
      [] step = "PrintLine" -> 11

CmdRank(cmd) ==
    CASE cmd = "rev-parse" -> 1
      [] cmd = "log" -> 2
      [] cmd = "status" -> 3

Ran(step) == \E i \in 1..Len(trace) : trace[i] = step

\* C9: the steps of a run occur in the fixed order argument validation,
\* repository check, dependency-file resolution, log query, status query,
\* output; the repository check and the log query are issued at most once,
\* the status query at most once and only after a log query that found a
\* commit, and nothing runs after the run has ended.
C9_LinearOrder ==
    /\ \A i \in 1..(Len(trace) - 1) : Rank(trace[i]) < Rank(trace[i + 1])
    /\ \A i \in 1..(Len(gitCalls) - 1) :
           CmdRank(gitCalls[i].cmd) < CmdRank(gitCalls[i + 1].cmd)
    /\ Cardinality(RevParseCalls) <= 1
    /\ Cardinality(LogCalls) <= 1
    /\ Cardinality(StatusCalls) <= 1
    /\ LogCalls # {} => (RevParseCalls # {} /\ Ran("LoadDependencies"))
    /\ StatusCalls # {} => CommitFound
    /\ stdout # <<>> => (Len(stdout) = 1 /\ CommitFound /\ pc = "done")
    /\ pc = "done" => ~ENABLED Next

C9_Witness ==
    /\ pc = "done"
    /\ Len(trace) = 11

\* C10: date mode is selected if and only if the second argument is exactly
\* --date; any other second argument is ignored and the run proceeds in hash
\* mode, dirty check included, without a usage error; --date as the first
\* argument is the file name, not a mode flag.
C10_DateFlag ==
    /\ Ran("ExtractFilename") => (get_date <=> (Len(args) = 3 /\ args[3] = "--date"))
    /\ (Len(args) = 3 /\ args[3] # "--date")
          => /\ ~UsageExit
             /\ \A i \in LogCalls : gitCalls[i].format = HashFormat
             /\ (CommitFound /\ pc = "done") => StatusCalls # {}
    /\ (Len(args) = 2 /\ args[2] = "--date" /\ Ran("ExtractFilename"))
          => /\ filename = "--date"
             /\ ~get_date
             /\ \A i \in LogCalls : gitCalls[i].format = HashFormat

C10_Witness ==
    /\ Len(args) = 3
    /\ args[3] = "--dat"
    /\ CommitFound
    /\ StatusCalls # {}
    /\ pc = "done"

====
